---- MODULE Spec2Model ----
(***************************************************************************)
(* Stateful neural-network layers of ivy/neural_net_stateful/layers.py:    *)
(* Linear, Conv1D, Conv1DTranspose, Conv2D, Conv2DTranspose and LSTM.      *)
(*                                                                         *)
(* A tensor is modelled by its shape and by the operation that produced    *)
(* it; element values are the business of the tensor library.  One layer   *)
(* object is constructed and then called; `layer` is the object (its       *)
(* hyperparameters and its parameter container v), `result` is what the    *)
(* last call returned or raised.                                           *)
(***************************************************************************)
EXTENDS Integers, Sequences, FiniteSets, TLC

VARIABLES layer, result

vars == <<layer, result>>

(***************************************************************************)
(* Bounds of the model.                                                    *)
(***************************************************************************)
MaxChannels == 2
MaxLayers == 2

\* The four gates of an LSTM cell: the weights have 4 * output_channels columns.
NumGates == 4

Channels == (-1)..MaxChannels
PosChannels == 1..MaxChannels
\* Sample extents of the axes that are not channels.
BatchShapes == {<<>>, <<2>>}
Times == {2}
Extents == {1, 2, 3}
Filters == {1, 2}

(***************************************************************************)
(* Sequences and shapes.                                                   *)
(***************************************************************************)
Last(s) == s[Len(s)]

Front(s) == SubSeq(s, 1, Len(s) - 1)

Max(a, b) == IF a >= b THEN a ELSE b

Min(a, b) == IF a <= b THEN a ELSE b

\* ceil(a / b) for b > 0
CeilDiv(a, b) == (a + b - 1) \div b

NonNegative(shape) == \A i \in 1..Len(shape) : shape[i] >= 0

\* Python's None, and a supplied optional argument.
None == <<>>

Some(x) == <<x>>

(***************************************************************************)
(* Tensors: shape, producing operation, and one integer the operation      *)
(* keeps: for "random_uniform" the d of wlim = sqrt(6 / d); for the        *)
(* outputs of lstm_update the number of stacked updates the tensor went    *)
(* through; 0 otherwise.  variable marks a trainable tensor.               *)
(***************************************************************************)
Tensor(shape, op, arg) == [shape |-> shape, op |-> op, arg |-> arg, variable |-> FALSE]

NoTensor == Tensor(<<>>, "none", 0)

ivy_zeros(shape) == Tensor(shape, "zeros", 0)

ivy_random_uniform(d, shape) == Tensor(shape, "random_uniform", d)

ivy_variable(t) == [t EXCEPT !.variable = TRUE]

\* Every backend refuses to allocate a tensor with a negative dimension.
CanAllocate(shape) == NonNegative(shape)

\* An input tensor handed in by the caller.
InputTensor(shape) == Tensor(shape, "input", 0)

(***************************************************************************)
(* Broadcasting of the element-wise + : shapes are aligned at their last   *)
(* axis, and two aligned dimensions must be equal or one of them 1.        *)
(***************************************************************************)
PadLeft(shape, n) ==
    [i \in 1..n |-> IF i <= n - Len(shape) THEN 1 ELSE shape[i - (n - Len(shape))]]

CanBroadcast(s1, s2) ==
    LET n == Max(Len(s1), Len(s2))
        a == PadLeft(s1, n)
        b == PadLeft(s2, n)
    IN \A i \in 1..n : a[i] = b[i] \/ a[i] = 1 \/ b[i] = 1

BroadcastShape(s1, s2) ==
    LET n == Max(Len(s1), Len(s2))
        a == PadLeft(s1, n)
        b == PadLeft(s2, n)
    IN [i \in 1..n |-> IF a[i] = 1 THEN b[i] ELSE a[i]]

\* The axis of the sum that axis k of the operand of shape s lines up with.
AlignedAxis(s, k, sum) == k + (Len(sum) - Len(s))

(***************************************************************************)
(* Results of calls.                                                       *)
(***************************************************************************)
NoResult ==
    [call |-> "none", kind |-> "none", err |-> "", inputs |-> NoTensor,
     out |-> NoTensor, conv |-> NoTensor, batch_shape |-> <<>>,
     initial_state |-> None, h_n_list |-> <<>>, c_n_list |-> <<>>, steps |-> <<>>]

Raised(call, inputs, err) ==
    [NoResult EXCEPT !.call = call, !.kind = "error", !.err = err, !.inputs = inputs]

Returned(call, inputs, out) ==
    [NoResult EXCEPT !.call = call, !.kind = "tensor", !.inputs = inputs, !.out = out]

(***************************************************************************)
(* Layer objects.                                                          *)
(***************************************************************************)
NoLayer ==
    [cls |-> "none", state |-> "Uninitialized", err |-> "", injected |-> FALSE,
     input_channels |-> 0, output_channels |-> 0,
     filter |-> <<>>, strides |-> 1, padding |-> "SAME", output_shape |-> None,
     data_format |-> "", dilations |-> 1,
     num_layers |-> 0, return_sequence |-> TRUE, return_state |-> TRUE,
     v |-> <<>>]

Created(v) == [ok |-> TRUE, v |-> v, err |-> ""]

CreateFailed(err) == [ok |-> FALSE, v |-> <<>>, err |-> err]

\* Module.__init__(self, dev_str, v): creates the variables unless v is given.
Module_init(self, created, v) ==
    IF Len(v) = 0
    THEN IF created.ok
         THEN [self EXCEPT !.state = "Ready", !.v = created.v]
         ELSE [self EXCEPT !.state = "Failed", !.err = created.err]
    ELSE [self EXCEPT !.state = "Ready", !.v = v[1], !.injected = TRUE]

(***************************************************************************)
(* Linear                                                                  *)
(***************************************************************************)
Linear_fields(input_channels, output_channels) ==
    [NoLayer EXCEPT !.cls = "Linear",
                    !.input_channels = input_channels,
                    !.output_channels = output_channels]

Linear_create_variables_bias_random(self) ==
    LET d == self.output_channels + self.input_channels
        w_shape == <<self.output_channels, self.input_channels>>
    IN IF d = 0 THEN CreateFailed("ZeroDivisionError")
       ELSE IF ~CanAllocate(w_shape) THEN CreateFailed("BackendError")
       ELSE Created([w |-> ivy_variable(ivy_random_uniform(d, w_shape)),
                     b |-> ivy_variable(ivy_random_uniform(d, <<self.output_channels>>))])

Linear_create_variables(self) ==
    LET d == self.output_channels + self.input_channels
        w_shape == <<self.output_channels, self.input_channels>>
    IN IF d = 0 THEN CreateFailed("ZeroDivisionError")
       ELSE IF ~CanAllocate(w_shape) THEN CreateFailed("BackendError")
       ELSE Created([w |-> ivy_variable(ivy_random_uniform(d, w_shape)),
                     b |-> ivy_variable(ivy_zeros(<<self.output_channels>>))])

Linear_new(input_channels, output_channels, v) ==
    LET self == Linear_fields(input_channels, output_channels)
    IN Module_init(self, Linear_create_variables(self), v)

\* What a tensor operation of the library gives: a tensor, or a failure.
OpOk(t) == [ok |-> TRUE, t |-> t]

OpFail == [ok |-> FALSE, t |-> NoTensor]

\* a + b on tensors, broadcasting.
ivy_add(a, b, op) ==
    IF CanBroadcast(a.shape, b.shape)
    THEN OpOk(Tensor(BroadcastShape(a.shape, b.shape), op, 0))
    ELSE OpFail

\* ivy.linear(x, weight, bias): x . weight^T + bias over the trailing dimension.
ivy_linear(x, weight, bias) ==
    IF /\ Len(x.shape) >= 1
       /\ Len(weight.shape) = 2
       /\ Last(x.shape) = weight.shape[2]
    THEN ivy_add(Tensor(Front(x.shape) \o <<weight.shape[1]>>, "matmul", 0), bias, "linear")
    ELSE OpFail

\* A failure of a library operation on incompatible shapes reaches the caller
\* unchanged; it is the error the specification calls ShapeMismatch.
Linear_forward_ret(self, inputs) ==
    LET r == ivy_linear(inputs, self.v.w, self.v.b)
    IN IF r.ok THEN Returned("forward", inputs, r.t)
       ELSE Raised("forward", inputs, "ShapeMismatch")

Linear_forward(self, inputs) ==
    [self |-> self, ret |-> Linear_forward_ret(self, inputs)]

(***************************************************************************)
(* Convolutions                                                            *)
(***************************************************************************)
ChannelLast(data_format) == data_format \in {"NWC", "NHWC"}

\* The axis (from 1) that holds the channels in a tensor of the given rank.
ChannelAxis(data_format, rank) == IF ChannelLast(data_format) THEN rank ELSE 2

Conv_fields(cls, input_channels, output_channels, filter, padding, data_format) ==
    [NoLayer EXCEPT !.cls = cls,
                    !.input_channels = input_channels,
                    !.output_channels = output_channels,
                    !.filter = filter,
                    !.padding = padding,
                    !.data_format = data_format]

\* One spatial extent of the result of a convolution / transposed convolution.
ConvExtent(s, f, stride, padding, dilation) ==
    IF padding = "SAME" THEN CeilDiv(s, stride)
    ELSE CeilDiv(s - (f - 1) * dilation, stride)

ConvTransposeExtent(s, f, stride, padding, dilation) ==
    IF padding = "SAME" THEN s * stride
    ELSE s * stride + Max((f - 1) * dilation + 1 - stride, 0)

\* conv1d / conv2d / conv1d_transpose / conv2d_transpose of the library, on the
\* weight layout the layers create: filter extents + [out, in] when the channels
\* come last, [out, in] + filter extents when they come first.
ivy_conv(x, w, strides, padding, data_format, dilations, transpose) ==
    LET r == Len(x.shape)
        nd == r - 2
        last == ChannelLast(data_format)
        spatial == IF last THEN SubSeq(x.shape, 2, r - 1) ELSE SubSeq(x.shape, 3, r)
        c_x == x.shape[ChannelAxis(data_format, r)]
        filter == IF last THEN SubSeq(w.shape, 1, nd) ELSE SubSeq(w.shape, 3, r)
        c_out == IF last THEN w.shape[nd + 1] ELSE w.shape[1]
        c_in == IF last THEN w.shape[nd + 2] ELSE w.shape[2]
        extent == [i \in 1..nd |->
                     IF transpose
                     THEN ConvTransposeExtent(spatial[i], filter[i], strides, padding, dilations)
                     ELSE ConvExtent(spatial[i], filter[i], strides, padding, dilations)]
        shape == IF last THEN <<x.shape[1]>> \o extent \o <<c_out>>
                 ELSE <<x.shape[1], c_out>> \o extent
    IN IF r < 3 \/ Len(w.shape) # r THEN OpFail
       ELSE IF c_x # c_in \/ \E i \in 1..nd : extent[i] < 1 THEN OpFail
       ELSE OpOk(Tensor(shape, IF transpose THEN "conv_transpose" ELSE "conv", 0))

\* return ivy.convNd(inputs, self.v.w, ...) + self.v.b
Conv_forward_ret(self, inputs, transpose) ==
    LET c == ivy_conv(inputs, self.v.w, self.strides, self.padding, self.data_format,
                      self.dilations, transpose)
        s == ivy_add(c.t, self.v.b, "conv+bias")
    IN IF ~c.ok THEN Raised("forward", inputs, "ShapeMismatch")
       ELSE IF ~s.ok THEN [Raised("forward", inputs, "ShapeMismatch") EXCEPT !.conv = c.t]
       ELSE [Returned("forward", inputs, s.t) EXCEPT !.conv = c.t]

Conv_created(d, w_shape, b_shape) ==
    IF d = 0 THEN CreateFailed("ZeroDivisionError")
    ELSE IF ~CanAllocate(w_shape) THEN CreateFailed("BackendError")
    ELSE Created([w |-> ivy_variable(ivy_random_uniform(d, w_shape)),
                  b |-> ivy_variable(ivy_zeros(b_shape))])

\* ---- Conv1D ----
Conv1D_create_variables_layout_swapped(self) ==
    Conv_created(self.output_channels + self.input_channels,
                 IF self.data_format # "NWC"
                 THEN self.filter \o <<self.output_channels, self.input_channels>>
                 ELSE <<self.output_channels, self.input_channels>> \o self.filter,
                 <<1, 1, self.output_channels>>)

Conv1D_create_variables(self) ==
    Conv_created(self.output_channels + self.input_channels,
                 IF self.data_format = "NWC"
                 THEN self.filter \o <<self.output_channels, self.input_channels>>
                 ELSE <<self.output_channels, self.input_channels>> \o self.filter,
                 <<1, 1, self.output_channels>>)

Conv1D_new(input_channels, output_channels, filter_size, padding, data_format, v) ==
    LET self == Conv_fields("Conv1D", input_channels, output_channels, <<filter_size>>,
                            padding, data_format)
    IN Module_init(self, Conv1D_create_variables(self), v)

Conv1D_forward(self, inputs) ==
    [self |-> self, ret |-> Conv_forward_ret(self, inputs, FALSE)]

\* ---- Conv1DTranspose ----
Conv1DTranspose_create_variables(self) ==
    Conv_created(self.output_channels + self.input_channels,
                 IF self.data_format = "NWC"
                 THEN self.filter \o <<self.output_channels, self.input_channels>>
                 ELSE <<self.output_channels, self.input_channels>> \o self.filter,
                 <<1, 1, self.output_channels>>)

Conv1DTranspose_new(input_channels, output_channels, filter_size, padding, data_format, v) ==
    LET self == Conv_fields("Conv1DTranspose", input_channels, output_channels,
                            <<filter_size>>, padding, data_format)
    IN Module_init(self, Conv1DTranspose_create_variables(self), v)

Conv1DTranspose_forward(self, inputs) ==
    [self |-> self, ret |-> Conv_forward_ret(self, inputs, TRUE)]

\* ---- Conv2D ----
Conv2D_create_variables(self) ==
    Conv_created(self.output_channels + self.input_channels,
                 IF self.data_format = "NHWC"
                 THEN self.filter \o <<self.output_channels, self.input_channels>>
                 ELSE <<self.output_channels, self.input_channels>> \o self.filter,
                 <<1, 1, 1, self.output_channels>>)

Conv2D_new(input_channels, output_channels, filter_shape, padding, data_format, v) ==
    LET self == Conv_fields("Conv2D", input_channels, output_channels, filter_shape,
                            padding, data_format)
    IN Module_init(self, Conv2D_create_variables(self), v)

Conv2D_forward(self, inputs) ==
    [self |-> self, ret |-> Conv_forward_ret(self, inputs, FALSE)]

\* ---- Conv2DTranspose ----
Conv2DTranspose_create_variables(self) ==
    Conv_created(self.output_channels + self.input_channels,
                 IF self.data_format = "NHWC"
                 THEN self.filter \o <<self.output_channels, self.input_channels>>
                 ELSE <<self.output_channels, self.input_channels>> \o self.filter,
                 <<1, 1, 1, self.output_channels>>)

Conv2DTranspose_new(input_channels, output_channels, filter_shape, padding, data_format, v) ==
    LET self == Conv_fields("Conv2DTranspose", input_channels, output_channels,
                            filter_shape, padding, data_format)
    IN Module_init(self, Conv2DTranspose_create_variables(self), v)

Conv2DTranspose_forward(self, inputs) ==
    [self |-> self, ret |-> Conv_forward_ret(self, inputs, TRUE)]

(***************************************************************************)
(* LSTM                                                                    *)
(***************************************************************************)
LSTM_fields(input_channels, output_channels, num_layers, return_sequence, return_state) ==
    [NoLayer EXCEPT !.cls = "LSTM",
                    !.input_channels = input_channels,
                    !.output_channels = output_channels,
                    !.num_layers = num_layers,
                    !.return_sequence = return_sequence,
                    !.return_state = return_state]

\* 'layer_' + str(i)
LayerKey(i) == "layer_" \o ToString(i)

\* An ordered mapping (dict, Container) is the sequence of its items, in insertion
\* order; an item is a key and the sub-container {'w': tensor} under it.
Item(key, w) == [key |-> key, val |-> [w |-> w]]

Keys(items) == [k \in 1..Len(items) |-> items[k].key]

\* range(n): 0 .. n-1, empty when n <= 0; position k of a list holds index k-1.
Range(n) == 1..n

LSTM_get_initial_state_one_short(self, batch_shape) ==
    LET shape == batch_shape \o <<self.output_channels>>
    IN IF self.num_layers >= 1 /\ ~CanAllocate(shape)
       THEN [ok |-> FALSE, h |-> <<>>, c |-> <<>>]
       ELSE [ok |-> TRUE,
             h |-> [k \in Range(self.num_layers - 1) |-> ivy_zeros(shape)],
             c |-> [k \in Range(self.num_layers) |-> ivy_zeros(shape)]]

LSTM_get_initial_state(self, batch_shape) ==
    LET shape == batch_shape \o <<self.output_channels>>
    IN IF self.num_layers >= 1 /\ ~CanAllocate(shape)
       THEN [ok |-> FALSE, h |-> <<>>, c |-> <<>>]
       ELSE [ok |-> TRUE,
             h |-> [k \in Range(self.num_layers) |-> ivy_zeros(shape)],
             c |-> [k \in Range(self.num_layers) |-> ivy_zeros(shape)]]

\* Variant: every layer takes the input size of layer 0.
LSTM_input_shape_same_input_size(self, i) ==
    <<self.input_channels, NumGates * self.output_channels>>

LSTM_input_shape(self, i) ==
    <<IF i = 0 THEN self.input_channels ELSE self.output_channels,
      NumGates * self.output_channels>>

LSTM_recurrent_shape(self) ==
    <<self.output_channels, NumGates * self.output_channels>>

LSTM_create_variables(self) ==
    LET n == self.num_layers
        d_input == self.output_channels + self.input_channels
        d_recurrent == self.output_channels + self.output_channels
    IN IF d_input = 0 THEN CreateFailed("ZeroDivisionError")
       ELSE IF \E k \in Range(n) : ~CanAllocate(LSTM_input_shape(self, k - 1))
            THEN CreateFailed("BackendError")
       ELSE IF d_recurrent = 0 THEN CreateFailed("ZeroDivisionError")
       ELSE IF n >= 1 /\ ~CanAllocate(LSTM_recurrent_shape(self))
            THEN CreateFailed("BackendError")
       ELSE Created(
              [input |-> [k \in Range(n) |->
                            Item(LayerKey(k - 1),
                                 ivy_variable(ivy_random_uniform(d_input,
                                                                 LSTM_input_shape(self, k - 1))))],
               recurrent |-> [k \in Range(n) |->
                            Item(LayerKey(k - 1),
                                 ivy_variable(ivy_random_uniform(d_recurrent,
                                                                 LSTM_recurrent_shape(self))))]])

LSTM_new(input_channels, output_channels, num_layers, return_sequence, return_state, v) ==
    LET self == LSTM_fields(input_channels, output_channels, num_layers,
                            return_sequence, return_state)
    IN Module_init(self, LSTM_create_variables(self), v)

\* t[..., -1, :] : the last step of the time axis, which is dropped.
LastTimestep(t) ==
    LET r == Len(t.shape)
    IN Tensor(SubSeq(t.shape, 1, r - 2) \o <<t.shape[r]>>, t.op \o "[...,-1,:]", t.arg)

\* ivy.lstm_update(x, init_h, init_c, kernel, recurrent_kernel) -> (h sequence, c):
\* x is [batch_shape, t, in], the states are [batch_shape, out], the kernels
\* [in, 4 out] and [out, 4 out].
ivy_lstm_update(x, init_h, init_c, kernel, recurrent_kernel) ==
    LET r == Len(x.shape)
        batch == SubSeq(x.shape, 1, r - 2)
        out == kernel.shape[2] \div NumGates
    IN IF /\ r >= 2
          /\ Len(kernel.shape) = 2
          /\ Len(recurrent_kernel.shape) = 2
          /\ x.shape[r] = kernel.shape[1]
          /\ kernel.shape[2] = NumGates * out
          /\ recurrent_kernel.shape = <<out, NumGates * out>>
          /\ init_h.shape = batch \o <<out>>
          /\ init_c.shape = batch \o <<out>>
       THEN [ok |-> TRUE,
             h_t |-> Tensor(batch \o <<x.shape[r - 1], out>>, "lstm_update.h", x.arg + 1),
             c_n |-> Tensor(batch \o <<out>>, "lstm_update.c", x.arg + 1)]
       ELSE [ok |-> FALSE, h_t |-> NoTensor, c_n |-> NoTensor]

\* zip(...) stops with its shortest argument.
ZipLen(initial_state, v) ==
    Min(Min(Len(initial_state.h), Len(initial_state.c)),
        Min(Len(v.input), Len(v.recurrent)))

\* The body of the for loop: one lstm_update and the two appends.
LSTM_forward_step(acc, h_0, c_0, input_item, recurrent_item) ==
    LET u == ivy_lstm_update(acc.h_t, h_0, c_0, input_item.val.w, recurrent_item.val.w)
    IN IF ~u.ok THEN [acc EXCEPT !.ok = FALSE]
       ELSE [acc EXCEPT !.h_t = u.h_t,
                        !.h_n_list = Append(@, LastTimestep(u.h_t)),
                        !.c_n_list = Append(@, u.c_n),
                        !.steps = Append(@, [x |-> acc.h_t, h_0 |-> h_0, c_0 |-> c_0,
                                             input_key |-> input_item.key,
                                             recurrent_key |-> recurrent_item.key,
                                             h_t |-> u.h_t, c_n |-> u.c_n])]

RECURSIVE LSTM_forward_loop(_, _, _, _)
LSTM_forward_loop(self, initial_state, k, acc) ==
    IF k > ZipLen(initial_state, self.v) \/ ~acc.ok THEN acc
    ELSE LSTM_forward_loop(self, initial_state, k + 1,
                           LSTM_forward_step(acc, initial_state.h[k], initial_state.c[k],
                                             self.v.input[k], self.v.recurrent[k]))

\* The two closing ifs and the return.
LSTM_forward_return(self, inputs, acc) ==
    LET h_t == IF ~self.return_sequence THEN LastTimestep(acc.h_t) ELSE acc.h_t
        r == [Returned("forward", inputs, h_t) EXCEPT !.steps = acc.steps]
    IN IF ~self.return_state THEN r
       ELSE [r EXCEPT !.kind = "pair", !.h_n_list = acc.h_n_list, !.c_n_list = acc.c_n_list]

LSTM_forward_ret(self, inputs, initial_state) ==
    LET init == IF Len(initial_state) = 0
                THEN LSTM_get_initial_state(self, SubSeq(inputs.shape, 1, Len(inputs.shape) - 2))
                ELSE [ok |-> TRUE, h |-> initial_state[1].h, c |-> initial_state[1].c]
        acc == LSTM_forward_loop(self, init, 1,
                                 [ok |-> TRUE, h_t |-> inputs, h_n_list |-> <<>>,
                                  c_n_list |-> <<>>, steps |-> <<>>])
        ret == IF ~init.ok THEN Raised("forward", inputs, "BackendError")
               ELSE IF ~acc.ok THEN Raised("forward", inputs, "ShapeMismatch")
               ELSE LSTM_forward_return(self, inputs, acc)
    IN [ret EXCEPT !.initial_state = initial_state]

LSTM_forward_recreating(self, inputs, initial_state) ==
    [self |-> [self EXCEPT !.v = LSTM_create_variables(self).v, !.injected = FALSE],
     ret |-> LSTM_forward_ret(self, inputs, initial_state)]

LSTM_forward(self, inputs, initial_state) ==
    [self |-> self, ret |-> LSTM_forward_ret(self, inputs, initial_state)]

\* The public call: the pair of lists, or the library's failure.
LSTM_get_initial_state_call(self, batch_shape) ==
    LET s == LSTM_get_initial_state(self, batch_shape)
    IN [self |-> self,
        ret |-> IF s.ok
                THEN [NoResult EXCEPT !.call = "get_initial_state", !.kind = "state",
                                      !.batch_shape = batch_shape,
                                      !.h_n_list = s.h, !.c_n_list = s.c]
                ELSE [NoResult EXCEPT !.call = "get_initial_state", !.kind = "error",
                                      !.batch_shape = batch_shape, !.err = "BackendError"]]

(***************************************************************************)
(* The inputs the calls are given.                                         *)
(***************************************************************************)
Bools == {TRUE, FALSE}

Paddings == {"SAME", "VALID"}

\* A container handed to the constructor is one another layer of the class created.
LinearContainers ==
    {Linear_create_variables(Linear_fields(i, o)).v : i \in PosChannels, o \in PosChannels}

Conv1DContainers(cls, filter, data_format) ==
    {Conv1D_create_variables(Conv_fields(cls, i, o, filter, "SAME", data_format)).v :
        i \in PosChannels, o \in PosChannels}

Conv2DContainers(cls, filter, data_format) ==
    {Conv2D_create_variables(Conv_fields(cls, i, o, filter, "SAME", data_format)).v :
        i \in PosChannels, o \in PosChannels}

LSTMContainers ==
    {LSTM_create_variables(LSTM_fields(c, c, n, TRUE, TRUE)).v :
        c \in PosChannels, n \in 0..MaxLayers}

Optional(S) == {None} \cup {Some(x) : x \in S}

LinearInputs == {InputTensor(b \o <<c>>) : b \in BatchShapes, c \in PosChannels}

Conv1DInputs == {InputTensor(<<2, a, b>>) : a \in Extents, b \in Extents}

Conv2DInputs == {InputTensor(<<2, a, b, c>>) : a \in Extents, b \in Extents, c \in Extents}

LSTMInputs ==
    {InputTensor(b \o <<t, c>>) : b \in BatchShapes, t \in Times, c \in PosChannels}

\* Initial states for an input: lists of zero states [batch_shape, out], of any length.
InitialStates(inputs) ==
    LET batch == SubSeq(inputs.shape, 1, Len(inputs.shape) - 2)
    IN {[h |-> [k \in 1..nh |-> ivy_zeros(batch \o <<o>>)],
         c |-> [k \in 1..nc |-> ivy_zeros(batch \o <<o>>)]] :
           nh \in 0..MaxLayers, nc \in 0..MaxLayers, o \in PosChannels}

(***************************************************************************)
(* The state machine: one layer is constructed, then called.               *)
(***************************************************************************)
Init ==
    /\ layer = NoLayer
    /\ result = NoResult

Constructed(new) ==
    /\ layer' = new
    /\ result' = NoResult

Called(r) ==
    /\ layer' = r.self
    /\ result' = r.ret

CanConstruct == layer.state = "Uninitialized"

CanCall(cls) ==
    /\ layer.state = "Ready"
    /\ layer.cls = cls
    /\ result.call = "none"

NewLinear ==
    /\ CanConstruct
    /\ \E i \in Channels, o \in Channels, v \in Optional(LinearContainers) :
        Constructed(Linear_new(i, o, v))

NewConv1D ==
    /\ CanConstruct
    /\ \E i \in Channels, o \in Channels, f \in Filters, p \in Paddings,
          d \in {"NWC", "NCW"} :
        \E v \in Optional(Conv1DContainers("Conv1D", <<f>>, d)) :
            Constructed(Conv1D_new(i, o, f, p, d, v))

NewConv1DTranspose ==
    /\ CanConstruct
    /\ \E i \in Channels, o \in Channels, f \in Filters, p \in Paddings,
          d \in {"NWC", "NCW"} :
        \E v \in Optional(Conv1DContainers("Conv1DTranspose", <<f>>, d)) :
            Constructed(Conv1DTranspose_new(i, o, f, p, d, v))

NewConv2D ==
    /\ CanConstruct
    /\ \E i \in Channels, o \in Channels, fh \in Filters, fw \in Filters,
          p \in Paddings, d \in {"NHWC", "NCHW"} :
        \E v \in Optional(Conv2DContainers("Conv2D", <<fh, fw>>, d)) :
            Constructed(Conv2D_new(i, o, <<fh, fw>>, p, d, v))

NewConv2DTranspose ==
    /\ CanConstruct
    /\ \E i \in Channels, o \in Channels, fh \in Filters, fw \in Filters,
          p \in Paddings, d \in {"NHWC", "NCHW"} :
        \E v \in Optional(Conv2DContainers("Conv2DTranspose", <<fh, fw>>, d)) :
            Constructed(Conv2DTranspose_new(i, o, <<fh, fw>>, p, d, v))

NewLSTM ==
    /\ CanConstruct
    /\ \E i \in Channels, o \in Channels, n \in 0..MaxLayers, rseq \in Bools, rst \in Bools,
          v \in Optional(LSTMContainers) :
        Constructed(LSTM_new(i, o, n, rseq, rst, v))

LinearForward ==
    /\ CanCall("Linear")
    /\ \E x \in LinearInputs : Called(Linear_forward(layer, x))

Conv1DForward ==
    /\ CanCall("Conv1D")
    /\ \E x \in Conv1DInputs : Called(Conv1D_forward(layer, x))

Conv1DTransposeForward ==
    /\ CanCall("Conv1DTranspose")
    /\ \E x \in Conv1DInputs : Called(Conv1DTranspose_forward(layer, x))

Conv2DForward ==
    /\ CanCall("Conv2D")
    /\ \E x \in Conv2DInputs : Called(Conv2D_forward(layer, x))

Conv2DTransposeForward ==
    /\ CanCall("Conv2DTranspose")
    /\ \E x \in Conv2DInputs : Called(Conv2DTranspose_forward(layer, x))

LSTMForward ==
    /\ CanCall("LSTM")
    /\ \E x \in LSTMInputs :
        \E s \in Optional(InitialStates(x)) : Called(LSTM_forward(layer, x, s))

LSTMGetInitialState ==
    /\ CanCall("LSTM")
    /\ \E b \in BatchShapes : Called(LSTM_get_initial_state_call(layer, b))

\* The caller has taken the returned value (or caught the error).
Discard ==
    /\ result.call # "none"
    /\ result' = NoResult
    /\ UNCHANGED layer

Next ==
    \/ NewLinear
    \/ NewConv1D
    \/ NewConv1DTranspose
    \/ NewConv2D
    \/ NewConv2DTranspose
    \/ NewLSTM
    \/ LinearForward
    \/ Conv1DForward
    \/ Conv1DTransposeForward
    \/ Conv2DForward
    \/ Conv2DTransposeForward
    \/ LSTMForward
    \/ LSTMGetInitialState
    \/ Discard

Spec == Init /\ [][Next]_vars

(***************************************************************************)
(* Properties.                                                             *)
(***************************************************************************)
ConvClasses1D == {"Conv1D", "Conv1DTranspose"}

ConvClasses2D == {"Conv2D", "Conv2DTranspose"}

ConvClasses == ConvClasses1D \cup ConvClasses2D

\* The layer exists and made its own variables.
ReadyWithOwnVariables == layer.state = "Ready" /\ ~layer.injected

\* Channel counts a layer can be built for.
PositiveChannels == layer.input_channels >= 1 /\ layer.output_channels >= 1

\* The layers whose input carries its channels on the trailing axis.
ChannelsTrail == layer.cls \in {"Linear", "LSTM"} \/ ChannelLast(layer.data_format)

\* The last call was a forward that returned a value.
ForwardReturned == result.call = "forward" /\ result.kind \in {"tensor", "pair"}

\* C1: a forward whose input's trailing dimension differs from input_channels
\* fails with ShapeMismatch and returns no output.  Stated for the layers whose
\* channels are the trailing axis, built with positive channel counts.
C1_WrongTrailingDimensionFails ==
    (/\ result.call = "forward"
     /\ PositiveChannels
     /\ ChannelsTrail
     /\ Last(result.inputs.shape) # layer.input_channels)
        => (result.kind = "error" /\ result.err = "ShapeMismatch")

\* C2: constructing a layer with a negative input_channels or output_channels
\* fails (InvalidConfiguration): no layer with such hyperparameters is ever Ready.
C2_NegativeChannelsRejected ==
    (layer.cls # "none" /\ (layer.input_channels < 0 \/ layer.output_channels < 0))
        => layer.state # "Ready"

\* C3: in the forward of the four convolution layers, for either data layout, the
\* created bias [1, 1, out] / [1, 1, 1, out] is broadcast over the batch and
\* spatial axes of the convolution result: the sum exists, keeps the result's
\* shape, and the bias's channel axis lines up with the result's channel axis.
C3_BiasBroadcastOverBatchAndSpatial ==
    (/\ result.call = "forward"
     /\ layer.cls \in ConvClasses
     /\ ~layer.injected
     /\ PositiveChannels
     /\ result.conv.op # "none")
        => /\ result.kind = "tensor"
           /\ result.out.shape = result.conv.shape
           /\ layer.output_channels > 1
                => AlignedAxis(layer.v.b.shape, Len(layer.v.b.shape), result.conv.shape)
                     = ChannelAxis(layer.data_format, Len(result.conv.shape))

\* C4: the weight a convolution layer creates has the shape its layout fixes:
\* filter_shape + [out, in] for NHWC and [out, in] + filter_shape for NCHW;
\* (filter_size, out, in) for NWC and (out, in, filter_size) for NCW.
C4_ConvWeightShapeByLayout ==
    (ReadyWithOwnVariables /\ layer.cls \in ConvClasses)
        => LET o == layer.output_channels
               i == layer.input_channels
               w == layer.v.w.shape
           IN /\ (layer.cls \in ConvClasses2D /\ layer.data_format = "NHWC")
                    => w = <<layer.filter[1], layer.filter[2], o, i>>
              /\ (layer.cls \in ConvClasses2D /\ layer.data_format = "NCHW")
                    => w = <<o, i, layer.filter[1], layer.filter[2]>>
              /\ (layer.cls \in ConvClasses1D /\ layer.data_format = "NWC")
                    => w = <<layer.filter[1], o, i>>
              /\ (layer.cls \in ConvClasses1D /\ layer.data_format = "NCW")
                    => w = <<o, i, layer.filter[1]>>

C4_Witness ==
    /\ ReadyWithOwnVariables
    /\ layer.cls = "Conv1D"
    /\ layer.data_format = "NCW"
    /\ layer.filter = <<2>>
    /\ layer.input_channels = 1
    /\ layer.output_channels = 2

\* C5: for valid (input_channels, output_channels) Linear creates exactly a weight
\* 'w' of shape [out, in] and a bias 'b' of shape [out] that is all zeros.
C5_LinearVariables ==
    (layer.cls = "Linear" /\ ~layer.injected)
        => /\ (layer.input_channels >= 1 /\ layer.output_channels >= 1)
                 => layer.state = "Ready"
           /\ layer.state = "Ready"
                 => /\ DOMAIN layer.v = {"w", "b"}
                    /\ layer.v.w.shape = <<layer.output_channels, layer.input_channels>>
                    /\ layer.v.b.shape = <<layer.output_channels>>
                    /\ layer.v.b.op = "zeros"

C5_Witness ==
    /\ ReadyWithOwnVariables
    /\ layer.cls = "Linear"
    /\ layer.input_channels = 2
    /\ layer.output_channels = 1

\* C6: for num_layers >= 1 the variables LSTM creates are an 'input' and a
\* 'recurrent' sub-container with exactly the keys layer_0 .. layer_{n-1}; input
\* weight i is [in, 4 out] for i = 0 and [out, 4 out] for i > 0, every recurrent
\* weight is [out, 4 out], and no entry holds a bias.
C6_LSTMVariables ==
    (ReadyWithOwnVariables /\ layer.cls = "LSTM" /\ layer.num_layers >= 1)
        => LET n == layer.num_layers
               o == layer.output_channels
           IN /\ DOMAIN layer.v = {"input", "recurrent"}
              /\ Len(layer.v.input) = n
              /\ Len(layer.v.recurrent) = n
              /\ layer.v.input[1].key = "layer_0"
              /\ \A k \in 1..n :
                    /\ layer.v.input[k].key = "layer_" \o ToString(k - 1)
                    /\ layer.v.recurrent[k].key = "layer_" \o ToString(k - 1)
                    /\ DOMAIN layer.v.input[k].val = {"w"}
                    /\ DOMAIN layer.v.recurrent[k].val = {"w"}
                    /\ layer.v.input[k].val.w.shape
                         = <<IF k = 1 THEN layer.input_channels ELSE o, 4 * o>>
                    /\ layer.v.recurrent[k].val.w.shape = <<o, 4 * o>>

C6_Witness ==
    /\ ReadyWithOwnVariables
    /\ layer.cls = "LSTM"
    /\ layer.num_layers = 2
    /\ layer.input_channels = 1
    /\ layer.output_channels = 2

\* C7: get_initial_state(batch_shape) returns two lists of exactly num_layers
\* elements, each a zero tensor of shape batch_shape + [out], and leaves the
\* layer's parameter container as it was.
C7_GetInitialState ==
    [][(result'.call = "get_initial_state" /\ result'.kind = "state")
          => /\ Len(result'.h_n_list) = layer.num_layers
             /\ Len(result'.c_n_list) = layer.num_layers
             /\ \A k \in 1..Len(result'.h_n_list) :
                   result'.h_n_list[k]
                     = ivy_zeros(result'.batch_shape \o <<layer.output_channels>>)
             /\ \A k \in 1..Len(result'.c_n_list) :
                   result'.c_n_list[k]
                     = ivy_zeros(result'.batch_shape \o <<layer.output_channels>>)
             /\ layer'.v = layer.v]_vars

C7_Witness ==
    /\ result.call = "get_initial_state"
    /\ result.kind = "state"
    /\ layer.num_layers = 2
    /\ result.batch_shape = <<2>>
    /\ Len(result.h_n_list) = 2

\* The initial state was left out, or has one entry per layer in both lists.
StateOmittedOrPerLayer ==
    \/ Len(result.initial_state) = 0
    \/ /\ Len(result.initial_state) = 1
       /\ Len(result.initial_state[1].h) = layer.num_layers
       /\ Len(result.initial_state[1].c) = layer.num_layers

\* C8: with the initial state omitted or given per layer, LSTM.forward runs
\* layers 0 .. num_layers-1 in order: step i consumes step i-1's full output
\* sequence (the input for i = 0), the i-th initial states and the layer_i
\* weights, and exactly num_layers hidden and cell states are collected, the
\* i-th hidden state the last timestep of layer i's output, the i-th cell state
\* the one layer i's update returned.
C8_LayersRunInOrder ==
    (ForwardReturned /\ layer.cls = "LSTM" /\ PositiveChannels /\ StateOmittedOrPerLayer)
        => LET n == layer.num_layers
               steps == result.steps
           IN /\ Len(steps) = n
              /\ \A k \in 1..Len(steps) :
                    /\ steps[k].x = IF k = 1 THEN result.inputs ELSE steps[k - 1].h_t
                    /\ steps[k].input_key = "layer_" \o ToString(k - 1)
                    /\ steps[k].recurrent_key = "layer_" \o ToString(k - 1)
                    /\ Len(result.initial_state) = 1
                         => /\ steps[k].h_0 = result.initial_state[1].h[k]
                            /\ steps[k].c_0 = result.initial_state[1].c[k]
              /\ layer.return_state
                    => /\ Len(result.h_n_list) = n
                       /\ Len(result.c_n_list) = n
                       /\ \A k \in 1..Len(result.h_n_list) :
                             k <= Len(steps)
                               => /\ result.h_n_list[k] = LastTimestep(steps[k].h_t)
                                  /\ result.c_n_list[k] = steps[k].c_n

\* C9: the two flags fix the form of LSTM.forward's result: the output is the
\* last layer's full sequence (shape batch_shape + [T, out]) when return_sequence
\* is true and its last timestep (shape batch_shape + [out]) when it is false;
\* the result is the output alone when return_state is false and the pair
\* (output, (hidden states, cell states)) when it is true.
C9_ResultFormByFlags ==
    (ForwardReturned /\ layer.cls = "LSTM" /\ PositiveChannels /\ layer.num_layers >= 1)
        => LET n == layer.num_layers
               r == Len(result.inputs.shape)
               batch == SubSeq(result.inputs.shape, 1, r - 2)
               T == result.inputs.shape[r - 1]
           IN /\ n >= 1 => /\ Len(result.steps) >= n
                           /\ result.out = IF layer.return_sequence
                                           THEN result.steps[n].h_t
                                           ELSE LastTimestep(result.steps[n].h_t)
              /\ result.out.shape = IF layer.return_sequence
                                    THEN batch \o <<T, layer.output_channels>>
                                    ELSE batch \o <<layer.output_channels>>
              /\ result.kind = IF layer.return_state THEN "pair" ELSE "tensor"
              /\ layer.return_state
                    => /\ Len(result.h_n_list) = Len(result.steps)
                       /\ Len(result.c_n_list) = Len(result.steps)

\* C10: once a layer is Ready, no call changes its parameter container or its
\* hyperparameters, whether the container was created or injected.
C10_ReadyLayerUnchanged ==
    [][layer.state = "Ready" => layer' = layer]_vars

C10_Witness ==
    /\ layer.state = "Ready"
    /\ layer.cls = "LSTM"
    /\ layer.injected
    /\ layer.num_layers = 2
    /\ Len(layer.v.input) = 1
    /\ ForwardReturned

\* An initial state was supplied whose hidden-state list or cell-state list does
\* not have num_layers entries, on an input and states of the layer's own sizes.
StateLengthMismatch ==
    /\ result.call = "forward"
    /\ layer.cls = "LSTM"
    /\ PositiveChannels
    /\ Len(result.initial_state) = 1
    /\ \/ Len(result.initial_state[1].h) # layer.num_layers
       \/ Len(result.initial_state[1].c) # layer.num_layers
    /\ Last(result.inputs.shape) = layer.input_channels
    /\ LET batch == SubSeq(result.inputs.shape, 1, Len(result.inputs.shape) - 2)
           shape == batch \o <<layer.output_channels>>
       IN /\ \A k \in 1..Len(result.initial_state[1].h) :
                result.initial_state[1].h[k].shape = shape
          /\ \A k \in 1..Len(result.initial_state[1].c) :
                result.initial_state[1].c[k].shape = shape

\* C11: given an initial state whose hidden-state or cell-state list has a length
\* other than num_layers, LSTM.forward raises no error; it runs exactly
\* min(len(hidden_states), len(cell_states), num_layers) layers, the first ones
\* in order (layer_0, layer_1, ...), so the weights of the remaining layers are
\* never used, and the returned hidden and cell lists have that length.
C11_MismatchedStateTruncates ==
    StateLengthMismatch
        => LET m == Min(Min(Len(result.initial_state[1].h), Len(result.initial_state[1].c)),
                        layer.num_layers)
           IN /\ result.kind # "error"
              /\ Len(result.steps) = m
              /\ \A k \in 1..Len(result.steps) :
                    /\ result.steps[k].input_key = "layer_" \o ToString(k - 1)
                    /\ result.steps[k].recurrent_key = "layer_" \o ToString(k - 1)
                    /\ result.steps[k].h_0 = result.initial_state[1].h[k]
                    /\ result.steps[k].c_0 = result.initial_state[1].c[k]
              /\ layer.return_state
                    => /\ Len(result.h_n_list) = m
                       /\ Len(result.c_n_list) = m

====
